---- MODULE Spec2Model ----
(***************************************************************************)
(* Model of olsonpm/parse-args: the strict named-argument parser           *)
(* namedSimple, in its full variant (src/lib/named-simple.js: --help and   *)
(* --version short-circuit, optional leading command) and its reduced      *)
(* variant (src/unnamed/part_000: named arguments only).                   *)
(*                                                                         *)
(* One behaviour is one caller: it owns an array of tokens, calls the      *)
(* parser on it, and then calls the parser a second time with the very     *)
(* same array object and the same configuration.                           *)
(***************************************************************************)
EXTENDS Integers, Sequences, FiniteSets, TLC

VARIABLES
  variant,        \* "full" (lib/named-simple.js) or "reduced" (part_000)
  allArgs,        \* the caller's array object, as the parser sees and changes it
  allowMultiple,  \* the allowMultiple parameter
  commands,       \* the commands parameter (full variant; [] by default)
  passed,         \* the caller's record of what the array held when first passed
  given,          \* what the array held when the current call began
  call,           \* "first" or "second" call on the same array object
  pc,             \* position inside namedSimple
  i,              \* the loop cursor
  result,         \* the local `result` object
  outcome,        \* what the current call returned or threw
  firstOutcome    \* what the first call returned or threw

vars == <<variant, allArgs, allowMultiple, commands, passed, given, call, pc, i,
          result, outcome, firstOutcome>>

-----------------------------------------------------------------------------
(* Bounds and the token universe *)

\* longest token array a caller passes
MaxLen == 4

\* The tokens, each spelled out character by character so that startsWith
\* and camelcase are computed on the text and not assumed.
TokenChars ==
  { <<"-", "-", "h", "e", "l", "p">>,
    <<"-", "-", "v", "e", "r", "s", "i", "o", "n">>,
    <<"-", "-", "n", "a", "m", "e">>,
    <<"-", "-", "n">>,
    <<"-", "-", "f", "o", "o", "-", "b", "a", "r">>,
    <<"r", "u", "n">> }

RECURSIVE Str(_)
Str(cs) == IF cs = <<>> THEN "" ELSE Head(cs) \o Str(Tail(cs))

Tokens == { Str(cs) : cs \in TokenChars }

CharsOf == [s \in Tokens |-> CHOOSE cs \in TokenChars : Str(cs) = s]

Chars(s) == CharsOf[s]

\* Configurations the caller may pass. The code only tests membership in
\* commands and folds over allowMultiple, so both arrays are held as sets.
MultiNames == {"--name", "--foo-bar"}
CommandSets == { {}, {"run"}, {"run", "--name"} }

RECURSIVE SeqsOfLen(_)
SeqsOfLen(n) ==
  IF n = 0 THEN { <<>> }
  ELSE { Append(s, t) : s \in SeqsOfLen(n - 1), t \in Tokens }

TokenSeqs == UNION { SeqsOfLen(n) : n \in 0..MaxLen }

-----------------------------------------------------------------------------
(* JavaScript built-ins and the camelcase dependency *)

\* String.prototype.startsWith('--')
startsWithDashes(s) ==
  LET cs == Chars(s) IN Len(cs) >= 2 /\ cs[1] = "-" /\ cs[2] = "-"

\* Array.prototype.includes
includes(arr, x) == \E k \in 1..Len(arr) : arr[k] = x

Lower == <<"a", "b", "c", "d", "e", "f", "g", "h", "i", "j", "k", "l", "m",
           "n", "o", "p", "q", "r", "s", "t", "u", "v", "w", "x", "y", "z">>
Upper == <<"A", "B", "C", "D", "E", "F", "G", "H", "I", "J", "K", "L", "M",
           "N", "O", "P", "Q", "R", "S", "T", "U", "V", "W", "X", "Y", "Z">>

toUpperCase(c) ==
  IF \E k \in 1..Len(Lower) : Lower[k] = c
  THEN Upper[CHOOSE k \in 1..Len(Lower) : Lower[k] = c]
  ELSE c

isSeparator(c) == c \in {"-", "_", ".", " "}

RECURSIVE stripLeading(_)
stripLeading(cs) ==
  IF cs # <<>> /\ isSeparator(Head(cs)) THEN stripLeading(Tail(cs)) ELSE cs

RECURSIVE camelRest(_, _)
camelRest(cs, up) ==
  IF cs = <<>> THEN ""
  ELSE IF isSeparator(Head(cs)) THEN camelRest(Tail(cs), TRUE)
  ELSE (IF up THEN toUpperCase(Head(cs)) ELSE Head(cs))
         \o camelRest(Tail(cs), FALSE)

\* camelcase(input) for lower-case input: leading separators are dropped,
\* every later run of separators is dropped and the character after it is
\* upper-cased.
camelcase(s) == camelRest(stripLeading(Chars(s)), FALSE)

-----------------------------------------------------------------------------
(* Values of the result object *)

ArrayOf(items) == [type |-> "array", items |-> items]
StringOf(s) == [type |-> "string", items |-> <<s>>]
BoolTrue == [type |-> "boolean", items |-> <<"true">>]

isArray(res, key) == key \in DOMAIN res /\ res[key].type = "array"

EmptyObject == <<>>

set(res, key, val) == (key :> val) @@ res

NoOutcome ==
  [kind |-> "none", value |-> EmptyObject, id |-> "", group |-> "",
   arg |-> "", allArgs |-> <<>>]

Returned(obj) ==
  [kind |-> "return", value |-> obj, id |-> "", group |-> "",
   arg |-> "", allArgs |-> <<>>]

\* a thrown Error: its id and group tags, and what its message quotes
Thrown(id, group, arg, args) ==
  [kind |-> "throw", value |-> EmptyObject, id |-> id, group |-> group,
   arg |-> arg, allArgs |-> args]

\* err.group is set in the full variant only
groupOf(v) == IF v = "full" THEN "cannot parse" ELSE "undefined"

-----------------------------------------------------------------------------
(* Helper functions of the source *)

\* lines 52-53: which short-circuit the first two statements take
shortCircuitVersionFirst(args) ==
  IF includes(args, "--version") THEN "version"
  ELSE IF includes(args, "--help") THEN "help"
  ELSE "none"

shortCircuit(args) ==
  IF includes(args, "--help") THEN "help"
  ELSE IF includes(args, "--version") THEN "version"
  ELSE "none"

initResultRawKeys(am) == [k \in am |-> ArrayOf(<<>>)]

initResult(am) == [k \in { camelcase(a) : a \in am } |-> ArrayOf(<<>>)]

throwExpectedToBeNamed(v, arg, args) ==
  Thrown("expected to be named", groupOf(v), arg, args)

throwLastArgCannotBeNamed(v, arg, args) ==
  Thrown("last arg cannot be named", groupOf(v), arg, args)

\* handleCommand with the membership test left out
handleCommandNoMembership(args, cmds, res) ==
  IF cmds = {}
  THEN [err |-> NoOutcome, args |-> args, res |-> res]
  ELSE IF args = <<>>
  THEN [err |-> Thrown("no command given", "cannot parse", "", <<>>),
        args |-> args, res |-> res]
  ELSE [err |-> NoOutcome,
        args |-> Tail(args),
        res |-> set(res, "_command", StringOf(args[1]))]

\* handleCommand with the shift left out
handleCommandNoShift(args, cmds, res) ==
  IF cmds = {}
  THEN [err |-> NoOutcome, args |-> args, res |-> res]
  ELSE IF args = <<>>
  THEN [err |-> Thrown("no command given", "cannot parse", "", <<>>),
        args |-> args, res |-> res]
  ELSE IF args[1] \notin cmds
  THEN [err |-> Thrown("command given doesn't exist", "cannot parse",
                       args[1], <<>>),
        args |-> args, res |-> res]
  ELSE [err |-> NoOutcome,
        args |-> args,
        res |-> set(res, "_command", StringOf(args[1]))]

\* handleCommand(allArgs, commands, result): the error it throws, or the
\* array and the result object as it leaves them ("mutates allArgs and
\* result"): result._command is set and the array is shifted in place.
handleCommand(args, cmds, res) ==
  IF cmds = {}
  THEN [err |-> NoOutcome, args |-> args, res |-> res]
  ELSE IF args = <<>>
  THEN [err |-> Thrown("no command given", "cannot parse", "", <<>>),
        args |-> args, res |-> res]
  ELSE IF args[1] \notin cmds
  THEN [err |-> Thrown("command given doesn't exist", "cannot parse",
                       args[1], <<>>),
        args |-> args, res |-> res]
  ELSE [err |-> NoOutcome,
        args |-> Tail(args),
        res |-> set(res, "_command", StringOf(args[1]))]

\* the loop body with unshift in place of push
loopBodyUnshift(v, args, c, res) ==
  LET arg == args[c + 1] IN
  IF ~startsWithDashes(arg)
  THEN [err |-> throwExpectedToBeNamed(v, arg, args), res |-> res, c |-> c]
  ELSE IF c = Len(args) - 1
  THEN [err |-> throwLastArgCannotBeNamed(v, arg, args), res |-> res, c |-> c]
  ELSE LET key == camelcase(arg)
           val == args[c + 2]
       IN [err |-> NoOutcome,
           res |-> IF isArray(res, key)
                   THEN set(res, key, ArrayOf(<<val>> \o res[key].items))
                   ELSE set(res, key, StringOf(val)),
           c |-> c + 2]

\* the loop body with its two checks in the other order
loopBodyLastFirst(v, args, c, res) ==
  LET arg == args[c + 1] IN
  IF c = Len(args) - 1
  THEN [err |-> throwLastArgCannotBeNamed(v, arg, args), res |-> res, c |-> c]
  ELSE IF ~startsWithDashes(arg)
  THEN [err |-> throwExpectedToBeNamed(v, arg, args), res |-> res, c |-> c]
  ELSE LET key == camelcase(arg)
           val == args[c + 2]
       IN [err |-> NoOutcome,
           res |-> IF isArray(res, key)
                   THEN set(res, key, ArrayOf(Append(res[key].items, val)))
                   ELSE set(res, key, StringOf(val)),
           c |-> c + 2]

\* One iteration of the for loop at cursor c: the error it throws, or the
\* result object and cursor after it (c is advanced once inside the body
\* and once by the loop header).
loopBody(v, args, c, res) ==
  LET arg == args[c + 1] IN
  IF ~startsWithDashes(arg)
  THEN [err |-> throwExpectedToBeNamed(v, arg, args), res |-> res, c |-> c]
  ELSE IF c = Len(args) - 1
  THEN [err |-> throwLastArgCannotBeNamed(v, arg, args), res |-> res, c |-> c]
  ELSE LET key == camelcase(arg)
           val == args[c + 2]
       IN [err |-> NoOutcome,
           res |-> IF isArray(res, key)
                   THEN set(res, key, ArrayOf(Append(res[key].items, val)))
                   ELSE set(res, key, StringOf(val)),
           c |-> c + 2]

\* The for loop and the return after it, run to its end from cursor c.
RECURSIVE forLoop(_, _, _, _)
forLoop(v, args, c, res) ==
  IF ~(c < Len(args)) THEN Returned(res)
  ELSE LET step == loopBody(v, args, c, res) IN
       IF step.err.kind = "throw" THEN step.err
       ELSE forLoop(v, args, step.c, step.res)

-----------------------------------------------------------------------------
(* The state machine *)

Init ==
  /\ variant \in {"full", "reduced"}
  /\ allArgs \in TokenSeqs
  /\ allowMultiple \in SUBSET MultiNames
  /\ commands \in (IF variant = "full" THEN CommandSets ELSE { {} })
  /\ passed = allArgs
  /\ given = allArgs
  /\ call = "first"
  /\ pc = "start"
  /\ i = 0
  /\ result = EmptyObject
  /\ outcome = NoOutcome
  /\ firstOutcome = NoOutcome

Finish(o) ==
  /\ outcome' = o
  /\ pc' = "done"

\* lines 52-55 of the full variant: the two short-circuit returns, or the
\* fresh result object
EnterFull ==
  /\ variant = "full" /\ pc = "start"
  /\ LET sc == shortCircuit(allArgs) IN
       IF sc = "none"
       THEN /\ result' = initResult(allowMultiple)
            /\ pc' = "command"
            /\ UNCHANGED outcome
       ELSE /\ Finish(Returned(set(EmptyObject, sc, BoolTrue)))
            /\ UNCHANGED result
  /\ UNCHANGED <<variant, allArgs, allowMultiple, commands, passed, given,
                 call, i, firstOutcome>>

\* line 57 of the full variant: handleCommand(allArgs, commands, result)
CallHandleCommand ==
  /\ variant = "full" /\ pc = "command"
  /\ LET step == handleCommand(allArgs, commands, result) IN
       IF step.err.kind = "throw"
       THEN /\ Finish(step.err)
            /\ UNCHANGED <<allArgs, result>>
       ELSE /\ allArgs' = step.args
            /\ result' = step.res
            /\ pc' = "loop"
            /\ UNCHANGED outcome
  /\ UNCHANGED <<variant, allowMultiple, commands, passed, given, call, i,
                 firstOutcome>>

\* line 50 of the reduced variant
EnterReduced ==
  /\ variant = "reduced" /\ pc = "start"
  /\ result' = initResult(allowMultiple)
  /\ pc' = "loop"
  /\ UNCHANGED <<variant, allArgs, allowMultiple, commands, passed, given,
                 call, i, outcome, firstOutcome>>

\* one iteration of the for loop
Iterate(v) ==
  /\ variant = v /\ pc = "loop"
  /\ i < Len(allArgs)
  /\ LET step == loopBody(v, allArgs, i, result) IN
       IF step.err.kind = "throw"
       THEN /\ Finish(step.err)
            /\ UNCHANGED <<i, result>>
       ELSE /\ i' = step.c
            /\ result' = step.res
            /\ UNCHANGED <<pc, outcome>>
  /\ UNCHANGED <<variant, allArgs, allowMultiple, commands, passed, given,
                 call, firstOutcome>>

\* the loop condition fails: return result
ReturnResult(v) ==
  /\ variant = v /\ pc = "loop"
  /\ ~(i < Len(allArgs))
  /\ Finish(Returned(result))
  /\ UNCHANGED <<variant, allArgs, allowMultiple, commands, passed, given,
                 call, i, result, firstOutcome>>

LoopFull == Iterate("full")
ReturnFull == ReturnResult("full")
LoopReduced == Iterate("reduced")
ReturnReduced == ReturnResult("reduced")

\* The caller parses the same array object again with the same
\* configuration; the locals of namedSimple are fresh.
CallAgain ==
  /\ pc = "done" /\ call = "first"
  /\ call' = "second"
  /\ firstOutcome' = outcome
  /\ given' = allArgs
  /\ pc' = "start"
  /\ i' = 0
  /\ result' = EmptyObject
  /\ outcome' = NoOutcome
  /\ UNCHANGED <<variant, allArgs, allowMultiple, commands, passed>>

Next ==
  \/ EnterFull
  \/ CallHandleCommand
  \/ LoopFull
  \/ ReturnFull
  \/ EnterReduced
  \/ LoopReduced
  \/ ReturnReduced
  \/ CallAgain

Spec == Init /\ [][Next]_vars

-----------------------------------------------------------------------------
(* Vocabulary of the properties *)

HelpObject == set(EmptyObject, "help", BoolTrue)
VersionObject == set(EmptyObject, "version", BoolTrue)

\* 1-based indices of the name positions of a token sequence
NamePositions(args) == { k \in 1..Len(args) : k % 2 = 1 }

\* a sequence of (name, value) pairs: even length, every name begins with --
WellFormed(args) ==
  /\ Len(args) % 2 = 0
  /\ \A k \in NamePositions(args) : startsWithDashes(args[k])

\* the values supplied, first to last, under names whose camel-cased form is key
RECURSIVE valuesFor(_, _)
valuesFor(args, key) ==
  IF Len(args) < 2 THEN <<>>
  ELSE (IF camelcase(args[1]) = key THEN <<args[2]>> ELSE <<>>)
         \o valuesFor(SubSeq(args, 3, Len(args)), key)

DeclaredKeys == { camelcase(a) : a \in allowMultiple }

\* the call took neither short-circuit (the reduced variant has none)
NoShortCircuit == variant = "reduced" \/ shortCircuit(given) = "none"

\* command-mode is on and the first token is one of the commands
CommandAccepted == commands # {} /\ given # <<>> /\ given[1] \in commands

\* the tokens the main loop is meant to walk
Body == IF commands # {} THEN Tail(given) ELSE given

\* the call reached the main loop
ReachedLoop == NoShortCircuit /\ (commands = {} \/ CommandAccepted)

-----------------------------------------------------------------------------
(* C1 *)

\* C1: in the full variant, whatever the configuration and the other
\* tokens, a call whose tokens hold --help returns exactly { help: true }
\* and throws nothing; one whose tokens hold --version and no --help
\* returns exactly { version: true }.
C1_HelpVersionShortCircuit ==
  (variant = "full" /\ pc = "done") =>
    /\ includes(given, "--help") => outcome = Returned(HelpObject)
    /\ (includes(given, "--version") /\ ~includes(given, "--help"))
         => outcome = Returned(VersionObject)

\* both tokens present after an unknown command: only help is reported
C1_Witness ==
  /\ variant = "full" /\ pc = "done" /\ commands = {"run"}
  /\ Len(given) = 3 /\ given[1] = "--n"
  /\ given[2] = "--version" /\ given[3] = "--help"
  /\ outcome = Returned(HelpObject)

-----------------------------------------------------------------------------
(* C2 *)

\* C2: the caller's token array holds, at every moment of a call and after
\* it, the elements it held when the caller passed it.
C2_InputNotMutated == allArgs = passed

-----------------------------------------------------------------------------
(* C3 *)

\* C3: the second call on the same array with the same configuration ends
\* as the first did: the same mapping returned, or the same failure kind.
C3_Idempotent ==
  (call = "second" /\ pc = "done") =>
    /\ outcome.kind = firstOutcome.kind
    /\ outcome.value = firstOutcome.value
    /\ outcome.id = firstOutcome.id

-----------------------------------------------------------------------------
(* C4 *)

AllMulti(args) ==
  WellFormed(args) /\ \A k \in NamePositions(args) : args[k] \in allowMultiple

ExpectedMulti(args) ==
  [key \in DeclaredKeys |-> ArrayOf(valuesFor(args, key))]

\* C4 as stated: for every well-formed sequence of pairs whose names are
\* all declared in allowMultiple (no command configured), the call returns
\* the mapping from each camel-cased name to the array of its values in
\* encounter order.
C4_AllMultiAsStated ==
  (pc = "done" /\ commands = {} /\ AllMulti(given))
    => outcome = Returned(ExpectedMulti(given))

\* C4 as amended: the same, for sequences that in the full variant hold
\* neither --help nor --version (as a name or as a value).
C4_AllMultiAccumulate ==
  (pc = "done" /\ commands = {} /\ AllMulti(given) /\ NoShortCircuit)
    => outcome = Returned(ExpectedMulti(given))

\* one multi name given twice, the other not at all
C4_Witness ==
  /\ variant = "full" /\ pc = "done" /\ commands = {}
  /\ allowMultiple = MultiNames
  /\ given = <<"--name", "run", "--name", "--n">>
  /\ outcome.kind = "return"
  /\ outcome.value["name"] = ArrayOf(<<"run", "--n">>)
  /\ outcome.value["fooBar"] = ArrayOf(<<>>)

-----------------------------------------------------------------------------
(* C5 *)

\* every declared key is present and holds an array; every other key holds
\* one string
Shape(res) ==
  /\ DeclaredKeys \subseteq DOMAIN res
  /\ \A key \in DOMAIN res :
       IF key \in DeclaredKeys
       THEN res[key].type = "array"
       ELSE res[key].type = "string" /\ Len(res[key].items) = 1

\* after the pairs before cursor c: an array holds all of its key's values
\* in order, a string is the value of its key's last occurrence, and no
\* other key is present
Contents(res, args, c) ==
  LET seen == SubSeq(args, 1, c) IN
  \A key \in DOMAIN res \ {"_command"} :
    LET vals == valuesFor(seen, key) IN
    IF key \in DeclaredKeys
    THEN res[key].items = vals
    ELSE vals # <<>> /\ res[key] = StringOf(vals[Len(vals)])

\* C5: from its initialisation on, after every iteration of the loop and
\* in the mapping returned after the loop, the result object maps every
\* key declared in allowMultiple to an array and every other key to one
\* string, the value of that key's last occurrence.
C5_ResultShape ==
  /\ pc \in {"command", "loop"}
       => Shape(result) /\ (pc = "loop" => Contents(result, allArgs, i))
  /\ (pc = "done" /\ outcome.kind = "return" /\ NoShortCircuit)
       => /\ Shape(outcome.value)
          /\ Contents(outcome.value, allArgs, Len(allArgs))

\* a non-multi option given twice beside a declared one never given
C5_Witness ==
  /\ pc = "done" /\ variant = "reduced"
  /\ allowMultiple = {"--name"}
  /\ given = <<"--foo-bar", "run", "--foo-bar", "--name">>
  /\ outcome.kind = "return"
  /\ outcome.value["fooBar"] = StringOf("--name")
  /\ outcome.value["name"] = ArrayOf(<<>>)

-----------------------------------------------------------------------------
(* C6 *)

UnknownCommand(o) ==
  /\ o.kind = "throw"
  /\ o.id = "command given doesn't exist"
  /\ o.group = "cannot parse"

\* C6 as stated: with commands configured, a call whose first token is not
\* one of them throws UnknownCommand.
C6_UnknownCommandAsStated ==
  (variant = "full" /\ pc = "done" /\ commands # {}
     /\ given # <<>> /\ given[1] \notin commands)
    => UnknownCommand(outcome)

\* C6 as amended: the same, for sequences holding neither --help nor
\* --version.
C6_UnknownCommand ==
  (variant = "full" /\ pc = "done" /\ commands # {} /\ NoShortCircuit
     /\ given # <<>> /\ given[1] \notin commands)
    => UnknownCommand(outcome)

C6_Witness ==
  /\ variant = "full" /\ pc = "done" /\ commands = {"run", "--name"}
  /\ given = <<"--foo-bar", "run">>
  /\ UnknownCommand(outcome) /\ outcome.arg = "--foo-bar"

-----------------------------------------------------------------------------
(* C7 *)

\* C7: when the first token is an accepted command and no short-circuit
\* applies, the loop walks the tokens after it, and the call ends as the
\* parse of those tokens with no commands configured ends: the same
\* failure kind, or the same mapping with the one extra key _command.
C7_CommandExtraction ==
  (variant = "full" /\ NoShortCircuit /\ CommandAccepted) =>
    /\ pc = "loop" => allArgs = Tail(given)
    /\ pc = "done" =>
         LET rest == forLoop("full", Tail(given), 0, initResult(allowMultiple))
         IN IF rest.kind = "throw"
            THEN outcome.kind = "throw" /\ outcome.id = rest.id
            ELSE /\ "_command" \notin DOMAIN rest.value
                 /\ outcome =
                      Returned(set(rest.value, "_command", StringOf(given[1])))

C7_Witness ==
  /\ variant = "full" /\ pc = "done" /\ commands = {"run", "--name"}
  /\ given = <<"--name", "--name", "run">>
  /\ outcome.kind = "return"
  /\ DOMAIN outcome.value = {"_command", "name"}
  /\ outcome.value["_command"] = StringOf("--name")
  /\ outcome.value["name"] = StringOf("run")

-----------------------------------------------------------------------------
(* C8 *)

\* C8: an ExpectedNamedArgument or MissingValue failure quotes the
\* offending token and the token sequence as the caller supplied it.
C8_ErrorQuotesWholeInput ==
  (pc = "done" /\ outcome.kind = "throw"
     /\ outcome.id \in {"expected to be named", "last arg cannot be named"})
    => /\ includes(given, outcome.arg)
       /\ outcome.allArgs = given

-----------------------------------------------------------------------------
(* C9 *)

isLetter(c) == \E k \in 1..Len(Lower) : c \in {Lower[k], Upper[k]}

SingleLetterName(s) ==
  LET cs == Chars(s) IN startsWithDashes(s) /\ Len(cs) = 3 /\ isLetter(cs[3])

\* C9: a call that reaches the main loop with a single-letter name at a
\* name position fails.
C9_SingleLetterRejected ==
  (pc = "done" /\ ReachedLoop
     /\ \E k \in NamePositions(Body) : SingleLetterName(Body[k]))
    => outcome.kind = "throw"

-----------------------------------------------------------------------------
(* C10 *)

\* name positions whose token the loop rejects
Offending(args) ==
  { k \in NamePositions(args) : ~startsWithDashes(args[k]) \/ k = Len(args) }

Leftmost(args) == CHOOSE k \in Offending(args) : \A m \in Offending(args) : k <= m

C10_Decision ==
  (pc = "done" /\ ReachedLoop) =>
    /\ outcome.kind \in {"return", "throw"}
    /\ outcome.kind = "return" <=> WellFormed(Body)
    /\ WellFormed(Body) <=> Offending(Body) = {}
    /\ outcome.kind = "throw" =>
         LET k == Leftmost(Body) IN
         /\ outcome.arg = Body[k]
         /\ outcome.id = IF ~startsWithDashes(Body[k])
                         THEN "expected to be named"
                         ELSE "last arg cannot be named"

\* the cursor sits on a name position and never passes the end of the array
C10_Bounded ==
  pc = "loop" => i % 2 = 0 /\ i <= Len(allArgs)

\* an iteration that does not end the call moves the cursor forward
C10_Advance == (pc = "loop" /\ pc' = "loop") => i' > i

====
